---------------------------- MODULE Spec2Model ----------------------------
(***************************************************************************)
(* A model of the card-tracking HTTP service of src/app/main.py: the       *)
(* in-memory card store (_DB_CARDS, _next_card_id), the request pipeline   *)
(* of every route (identity dependency, body validation and sanitization,  *)
(* the per-route rate limit, the handler body) and the RFC 7807 error      *)
(* envelope.  Handlers are modelled twice: as one atomic action each (the  *)
(* service answering one request at a time) and statement by statement     *)
(* (the handlers of several requests running in worker threads).  The      *)
(* specifications differ in their callers: Spec and SpecTitles leave a     *)
(* full window between two limited requests, SpecFlood and SpecFloodCard   *)
(* do not, SpecThreads overlaps the requests.                              *)
(***************************************************************************)
EXTENDS Integers, Sequences, FiniteSets, TLC

VARIABLES
    _DB_CARDS,      \* the dict of cards, in insertion order: <<key, reference of a Card object>>
    _next_card_id,  \* the id counter
    heap,           \* the Card objects: reference -> fields (NoCard: no such object)
    next_ref,       \* the reference the next constructed Card object gets
    storage,        \* the limiter's hit counters, per (endpoint, address)
    expirations,    \* per counter, the seconds left until its window ends
    last,           \* the request handled by the step just taken and its response
    returned,       \* the ids of the 201 responses so far, in the order they were sent
    threads,        \* the worker threads running handlers statement by statement
    ledger          \* per (endpoint, address): the requests handed to the limiter in the
                    \* window that began with the first of them, and the seconds it has left

vars == <<_DB_CARDS, _next_card_id, heap, next_ref, storage, expirations, last, returned,
          threads, ledger>>

-----------------------------------------------------------------------------
(* Bounds of the model *)

\* create requests are issued while _next_card_id <= MaxCards
MaxCards == 2

\* with the titles varied, create requests are issued while _next_card_id <= MaxTextCards
MaxTextCards == 1

\* the seconds one clock step advances
TickStep == 30

\* the number of worker threads, each handling one request
NumWorkers == 3

-----------------------------------------------------------------------------
(* Program constants *)

MinTitleLen == 3
MaxTitleLen == 255

CreateLimit == 5
CreateWindow == 30
HealthLimit == 5
HealthWindow == 30
DeleteLimit == 10
DeleteWindow == 60
UpdateLimit == 10
UpdateWindow == 60

\* class CardColumn
CardColumn == {"todo", "in-progress", "done"}

-----------------------------------------------------------------------------
(* Values *)

\* the result of _DB_CARDS.get(card_id) when the dict has no such key
NoRef == 0

\* the card ids requests name: the ids the bounded runs assign
Keys == 1..MaxCards

\* object references: at most one object per create request
Refs == 1..(MaxCards + NumWorkers + 2)

NoCard == [id |-> 0, title |-> <<>>, column |-> "", owner_id |-> ""]

\* the value of request.headers.get("X-User-ID") when the header is absent
NoUser == ""

NoProblem == [type |-> "", title |-> "", status |-> 0, detail |-> <<>>, correlation_id |-> ""]

\* str(uuid4()): the fresh identifier of an error response, kept as one token
Uuids == {"uuid4"}

\* a JSON body: the fields it carries and their values
Body(has_title, title, has_column, column) ==
    [json |-> TRUE, has_title |-> has_title, title |-> title, has_column |-> has_column,
     column |-> column]

NoBody == Body(FALSE, <<>>, FALSE, "")

\* a body that is sent as application/json and is not JSON (json.JSONDecodeError)
MalformedBody == [NoBody EXCEPT !.json = FALSE]

Repeat(c, n) == [i \in 1..n |-> c]

-----------------------------------------------------------------------------
(* ADR-001: validation and sanitization of the request body *)

\* str.replace(old, new) for a one-character old: every occurrence, left to right.
\* The string is split in halves to keep the evaluation shallow.
RECURSIVE Replace(_, _, _)
Replace(s, old, new) ==
    IF Len(s) = 0 THEN <<>>
    ELSE IF Len(s) = 1 THEN (IF s[1] = old THEN new ELSE s)
    ELSE LET m == Len(s) \div 2
         IN  Replace(SubSeq(s, 1, m), old, new) \o Replace(SubSeq(s, m + 1, Len(s)), old, new)

\* the replacements with & handled last: the & of the entities just written is escaped again
escapeAmpLast(s) ==
    LET s1 == Replace(s, "<", <<"&", "l", "t", ";">>)
        s2 == Replace(s1, ">", <<"&", "g", "t", ";">>)
        s3 == Replace(s2, "\"", <<"&", "q", "u", "o", "t", ";">>)
        s4 == Replace(s3, "'", <<"&", "#", "x", "2", "7", ";">>)
    IN  Replace(s4, "&", <<"&", "a", "m", "p", ";">>)

\* html.escape(s, quote=True): & first, then < and >, then the two quotes
escape(s) ==
    LET s1 == Replace(s, "&", <<"&", "a", "m", "p", ";">>)
        s2 == Replace(s1, "<", <<"&", "l", "t", ";">>)
        s3 == Replace(s2, ">", <<"&", "g", "t", ";">>)
        s4 == Replace(s3, "\"", <<"&", "q", "u", "o", "t", ";">>)
    IN  Replace(s4, "'", <<"&", "#", "x", "2", "7", ";">>)

\* the upper bound taken as exclusive
TitleLengthStrict(title) == MinTitleLen <= Len(title) /\ Len(title) < MaxTitleLen

\* the lower bound left out
TitleLengthNoMin(title) == Len(title) <= MaxTitleLen

\* Field(min_length=3, max_length=255), on the title as submitted
TitleLengthOk(title) == MinTitleLen <= Len(title) /\ Len(title) <= MaxTitleLen

\* request.json(): the body of a route that declares one is parsed before anything else
JsonParsed(body) == body.json

\* CardCreate: title and column are both required
CardCreateValid(body) ==
    /\ body.has_title /\ TitleLengthOk(body.title)
    /\ body.has_column /\ body.column \in CardColumn

\* CardUpdate: title is required, column is optional
CardUpdateValid(body) ==
    /\ body.has_title /\ TitleLengthOk(body.title)
    /\ body.has_column => body.column \in CardColumn

\* the validated model: the field validator replaces title by its escaped form
Sanitized(body) == [body EXCEPT !.title = escape(body.title)]

\* card_in.model_dump() of a CardCreate
CreateDump(card_in) == [title |-> card_in.title, column |-> card_in.column]

\* model_dump() without exclude_unset: every field, set or not
UpdateFieldsAll(card_in) == {"title", "column"}

\* card_in.model_dump(exclude_unset=True) of a CardUpdate: the fields the body set
UpdateFields(card_in) ==
    (IF card_in.has_title THEN {"title"} ELSE {}) \cup
    (IF card_in.has_column THEN {"column"} ELSE {})

\* the card rebuilt from the body alone
MergeReplace(card, card_in) ==
    [id |-> 0, owner_id |-> "", title |-> card_in.title, column |-> card_in.column]

\* the for loop of setattr(card, field, value)
Merge(card, card_in) ==
    [card EXCEPT !.title = IF "title" \in UpdateFields(card_in) THEN card_in.title ELSE @,
                 !.column = IF "column" \in UpdateFields(card_in) THEN card_in.column ELSE @]

-----------------------------------------------------------------------------
(* ADR-002: the RFC 7807 envelope *)

problem_json_response(status_code, title, detail, correlation_id) ==
    [type |-> "about:blank", title |-> title, status |-> status_code,
     detail |-> detail, correlation_id |-> correlation_id]

\* a response: the transport status and the content (a card, a list of cards, a problem,
\* or the {"detail": ...} document of the framework's own HTTPException handler)
Response(status, card, cards, problem) ==
    [status |-> status, card |-> card, cards |-> cards, problem |-> problem, detail |-> ""]

ErrorResponse(status_code, title, detail, cid) ==
    Response(status_code, NoCard, <<>>, problem_json_response(status_code, title, detail, cid))

AuthenticationError(cid) ==
    ErrorResponse(401, "Authentication Error", <<"X-User-ID header is missing.">>, cid)

ValidationError(cid) ==
    ErrorResponse(422, "Validation Error", <<"Input validation failed.">>, cid)

RateLimitError(rule, cid) ==
    ErrorResponse(429, "Rate Limit Exceeded", <<"Rate limit exceeded: ", rule>>, cid)

NotFoundError(card_id, cid) ==
    ErrorResponse(404, "Not Found", <<"Card with id=", card_id, " not found.">>, cid)

ForbiddenError(verb, cid) ==
    ErrorResponse(403, "Access Denied",
                  <<"You do not have permission to ", verb, " this card.">>, cid)

InternalError(cid) ==
    ErrorResponse(500, "Internal Server Error",
                  <<"An unexpected error occurred on the server.">>, cid)

-----------------------------------------------------------------------------
(* The dict _DB_CARDS: a sequence of <<key, reference>> in insertion order *)

DictKeys(d) == {d[i][1] : i \in 1..Len(d)}

\* the lookup that ignores the key: the first card of the dict
DictGetFirst(d, k) == IF Len(d) > 0 THEN d[1][2] ELSE NoRef

\* d.get(k)
DictGet(d, k) ==
    IF k \in DictKeys(d) THEN (CHOOSE e \in {d[i] : i \in 1..Len(d)} : e[1] = k)[2] ELSE NoRef

\* d[k] = r: an existing key keeps its place, a new key goes last
DictSet(d, k, r) ==
    IF k \in DictKeys(d)
    THEN [i \in 1..Len(d) |-> IF d[i][1] = k THEN <<k, r>> ELSE d[i]]
    ELSE Append(d, <<k, r>>)

\* the entry kept (a soft delete)
DictDelNone(d, k) == d

\* del d[k], for a key the dict has
DictDel(d, k) == SelectSeq(d, LAMBDA e : e[1] # k)

\* d.values(), dereferenced
DictValues(d, h) == [i \in 1..Len(d) |-> h[d[i][2]]]

\* the comprehension without its filter
OwnedByAnyone(cards, owner_id) == cards

\* [card for card in cards if card.owner_id == owner_id]
OwnedBy(cards, owner_id) == SelectSeq(cards, LAMBDA card : card.owner_id = owner_id)

-----------------------------------------------------------------------------
(* Worker threads *)

Workers == 1..NumWorkers

IdleThread == [pc |-> "idle", route |-> "", user |-> "", card_id |-> 0, body |-> NoBody,
               card |-> NoRef, tmp |-> 0,
               response |-> [status |-> 0, card |-> NoCard, cards |-> <<>>, problem |-> NoProblem,
                             detail |-> ""]]

\* reference counting: an object lives while the dict or a running handler refers to it
Live(d, th) == {d[i][2] : i \in 1..Len(d)} \cup {th[w].card : w \in Workers}

Collect(h, d, th) == [r \in Refs |-> IF r \in Live(d, th) THEN h[r] ELSE NoCard]

-----------------------------------------------------------------------------
(* ADR-003: rate limiting.  limiter = Limiter(key_func=get_remote_address);  *)
(* a decorated route is checked when its endpoint function is called, after  *)
(* the dependencies and the body are resolved.  A counter is kept per key    *)
(* of the caller, per scope and per parsed rule, in a fixed window that      *)
(* starts with the first hit; the scope of a request is its URL path (the    *)
(* limiter's default key style).                                             *)

Addrs == {"10.0.0.1", "10.0.0.2"}

LimitedRoutes == {"health", "create_card", "delete_card", "update_card"}

RateLimit(route) ==
    CASE route = "health" -> HealthLimit
      [] route = "create_card" -> CreateLimit
      [] route = "delete_card" -> DeleteLimit
      [] route = "update_card" -> UpdateLimit

RateWindow(route) ==
    CASE route = "health" -> HealthWindow
      [] route = "create_card" -> CreateWindow
      [] route = "delete_card" -> DeleteWindow
      [] route = "update_card" -> UpdateWindow

\* the rule text named in the 429 detail
RateRule(route) ==
    CASE route = "health" -> "5 per 30 second"
      [] route = "create_card" -> "5 per 30 second"
      [] route = "delete_card" -> "10 per 1 minute"
      [] route = "update_card" -> "10 per 1 minute"

\* the parsed rule of a route: the amount and the seconds of its window
RateItem(route) == <<RateLimit(route), RateWindow(route)>>

\* request["path"]: /health, /cards, /cards/{card_id}
Path(route, card_id) ==
    CASE route = "health" -> <<"health">>
      [] route \in {"create_card", "get_cards_list"} -> <<"cards">>
      [] OTHER -> <<"cards", card_id>>

\* the counter of a request: key_func(request), the scope and the rule
LimitKey(route, addr, card_id) == <<addr, Path(route, card_id), RateItem(route)>>

LimitKeys == {LimitKey(route, addr, card_id) : route \in LimitedRoutes, addr \in Addrs, card_id \in Keys}

\* the endpoint and address pairs the ledger is kept for
Ledgers == LimitedRoutes \X Addrs

NoWindow == [hits |-> 0, left |-> 0]

Min(a, b) == IF a < b THEN a ELSE b

\* the counter after a hit; past the limit further hits change no decision, so the
\* counter is kept at limit + 1
HitCount(k) == Min(storage[k] + 1, k[3][1] + 1)

\* the ledger entry of an endpoint and address after one more request
Counted(route, addr) ==
    LET w == ledger[<<route, addr>>]
    IN  [hits |-> Min(w.hits + 1, RateLimit(route) + 1),
         left |-> IF w.hits = 0 THEN RateWindow(route) ELSE w.left]

\* limiter.hit: count the request, start the window with the first hit
Hit(route, k) ==
    /\ storage' = [storage EXCEPT ![k] = HitCount(k)]
    /\ expirations' = [expirations EXCEPT ![k] = IF storage[k] = 0 THEN k[3][2] ELSE @]
    /\ ledger' = [ledger EXCEPT ![<<route, k[1]>>] = Counted(route, k[1])]

\* whether the hit stays within the rule
Admitted(k) == storage[k] + 1 <= k[3][1]

-----------------------------------------------------------------------------
(* The identity dependency and the authorization checks *)

\* get_current_user_id: fails when the header is missing or empty
Authenticated(user) == user # NoUser

\* the checks with a missing card answered like a foreign one
AccessMissingForbidden(card, owner_id) ==
    IF card = NoRef \/ heap[card].owner_id # owner_id THEN "forbidden" ELSE "ok"

\* the two checks every handler of /cards/{card_id} makes on the card it looked up
Access(card, owner_id) ==
    IF card = NoRef THEN "not_found"
    ELSE IF heap[card].owner_id # owner_id THEN "forbidden"
    ELSE "ok"

-----------------------------------------------------------------------------
(* The exchange of a step *)

Exchange(route, addr, user, card_id, body, response) ==
    [route |-> route, addr |-> addr, user |-> user, card_id |-> card_id, body |-> body,
     response |-> response]

NoResponse == Response(0, NoCard, <<>>, NoProblem)

NoExchange == Exchange("", "", "", 0, NoBody, NoResponse)

\* an id is used up although no card is stored
StoreIdConsumed ==
    /\ _next_card_id' = _next_card_id + 1
    /\ UNCHANGED <<_DB_CARDS, heap, next_ref, returned>>

\* the paths of a handler that assign nothing to the store
StoreUnchanged == UNCHANGED <<_DB_CARDS, _next_card_id, heap, next_ref, returned>>
LimiterUnchanged == UNCHANGED <<storage, expirations, ledger>>

-----------------------------------------------------------------------------
(* The routes, each request handled in one step *)

\* GET /health
health(addr, cid) ==
    LET k == LimitKey("health", addr, 0)
        ex(r) == Exchange("health", addr, NoUser, 0, NoBody, r)
    IN  /\ Hit("health", k)
        /\ last' = IF Admitted(k) THEN ex(Response(200, NoCard, <<>>, NoProblem))
                   ELSE ex(RateLimitError(RateRule("health"), cid))
        /\ StoreUnchanged
        /\ UNCHANGED threads

\* the counter left as it was
IdAfterStuck(id) == id

\* _next_card_id += 1
IdAfter(id) == id + 1

\* the Card that create_card constructs
NewCard(id, owner_id, card_in) ==
    [id |-> id, owner_id |-> owner_id,
     title |-> CreateDump(card_in).title, column |-> CreateDump(card_in).column]

\* POST /cards
create_card(addr, user, body, cid) ==
    LET k == LimitKey("create_card", addr, 0)
        ex(r) == Exchange("create_card", addr, user, 0, body, r)
        new_card == NewCard(_next_card_id, user, Sanitized(body))
    IN  /\ UNCHANGED threads
        /\ IF ~JsonParsed(body)
           THEN /\ last' = ex(ValidationError(cid))
                /\ StoreUnchanged /\ LimiterUnchanged
           ELSE IF ~Authenticated(user)
           THEN /\ last' = ex(AuthenticationError(cid))
                /\ StoreUnchanged /\ LimiterUnchanged
           ELSE IF ~CardCreateValid(body)
           THEN /\ last' = ex(ValidationError(cid))
                /\ StoreUnchanged /\ LimiterUnchanged
           ELSE /\ Hit("create_card", k)
                /\ IF ~Admitted(k)
                   THEN /\ last' = ex(RateLimitError(RateRule("create_card"), cid))
                        /\ StoreUnchanged
                   ELSE /\ heap' = [heap EXCEPT ![next_ref] = new_card]
                        /\ next_ref' = next_ref + 1
                        /\ _DB_CARDS' = DictSet(_DB_CARDS, _next_card_id, next_ref)
                        /\ _next_card_id' = IdAfter(_next_card_id)
                        /\ returned' = Append(returned, new_card.id)
                        /\ last' = ex(Response(201, new_card, <<>>, NoProblem))

\* GET /cards
get_cards_list(addr, user, cid) ==
    LET ex(r) == Exchange("get_cards_list", addr, user, 0, NoBody, r)
    IN  /\ UNCHANGED threads
        /\ StoreUnchanged /\ LimiterUnchanged
        /\ last' = IF ~Authenticated(user) THEN ex(AuthenticationError(cid))
                   ELSE ex(Response(200, NoCard, OwnedBy(DictValues(_DB_CARDS, heap), user),
                                    NoProblem))

\* GET /cards/{card_id}
get_card_by_id(addr, user, card_id, cid) ==
    LET ex(r) == Exchange("get_card_by_id", addr, user, card_id, NoBody, r)
        card == DictGet(_DB_CARDS, card_id)
    IN  /\ UNCHANGED threads
        /\ StoreUnchanged /\ LimiterUnchanged
        /\ last' = IF ~Authenticated(user) THEN ex(AuthenticationError(cid))
                   ELSE IF Access(card, user) = "not_found" THEN ex(NotFoundError(card_id, cid))
                   ELSE IF Access(card, user) = "forbidden" THEN ex(ForbiddenError("access", cid))
                   ELSE ex(Response(200, heap[card], <<>>, NoProblem))

\* DELETE /cards/{card_id}
delete_card(addr, user, card_id, cid) ==
    LET k == LimitKey("delete_card", addr, card_id)
        ex(r) == Exchange("delete_card", addr, user, card_id, NoBody, r)
        card == DictGet(_DB_CARDS, card_id)
    IN  /\ UNCHANGED threads
        /\ IF ~Authenticated(user)
           THEN /\ last' = ex(AuthenticationError(cid))
                /\ StoreUnchanged /\ LimiterUnchanged
           ELSE /\ Hit("delete_card", k)
                /\ IF ~Admitted(k)
                   THEN /\ last' = ex(RateLimitError(RateRule("delete_card"), cid))
                        /\ StoreUnchanged
                   ELSE IF Access(card, user) = "not_found"
                   THEN /\ last' = ex(NotFoundError(card_id, cid))
                        /\ StoreUnchanged
                   ELSE IF Access(card, user) = "forbidden"
                   THEN /\ last' = ex(ForbiddenError("delete", cid))
                        /\ StoreUnchanged
                   ELSE /\ _DB_CARDS' = DictDel(_DB_CARDS, card_id)
                        /\ heap' = Collect(heap, DictDel(_DB_CARDS, card_id), threads)
                        /\ UNCHANGED <<_next_card_id, next_ref, returned>>
                        /\ last' = ex(Response(204, NoCard, <<>>, NoProblem))

\* PATCH /cards/{card_id}
update_card(addr, user, card_id, body, cid) ==
    LET k == LimitKey("update_card", addr, card_id)
        ex(r) == Exchange("update_card", addr, user, card_id, body, r)
        card == DictGet(_DB_CARDS, card_id)
    IN  /\ UNCHANGED threads
        /\ IF ~JsonParsed(body)
           THEN /\ last' = ex(ValidationError(cid))
                /\ StoreUnchanged /\ LimiterUnchanged
           ELSE IF ~Authenticated(user)
           THEN /\ last' = ex(AuthenticationError(cid))
                /\ StoreUnchanged /\ LimiterUnchanged
           ELSE IF ~CardUpdateValid(body)
           THEN /\ last' = ex(ValidationError(cid))
                /\ StoreUnchanged /\ LimiterUnchanged
           ELSE /\ Hit("update_card", k)
                /\ IF ~Admitted(k)
                   THEN /\ last' = ex(RateLimitError(RateRule("update_card"), cid))
                        /\ StoreUnchanged
                   ELSE IF Access(card, user) = "not_found"
                   THEN /\ last' = ex(NotFoundError(card_id, cid))
                        /\ StoreUnchanged
                   ELSE IF Access(card, user) = "forbidden"
                   THEN /\ last' = ex(ForbiddenError("update", cid))
                        /\ StoreUnchanged
                   ELSE /\ heap' = [heap EXCEPT ![card] = Merge(@, Sanitized(body))]
                        /\ _DB_CARDS' = DictSet(_DB_CARDS, card_id, card)
                        /\ UNCHANGED <<_next_card_id, next_ref, returned>>
                        /\ last' = ex(Response(200, Merge(heap[card], Sanitized(body)), <<>>,
                                               NoProblem))

\* the clock advances by d seconds: the windows that have run out are dropped
Tick(d) ==
    /\ storage' = [k \in LimitKeys |-> IF expirations[k] <= d THEN 0 ELSE storage[k]]
    /\ expirations' = [k \in LimitKeys |-> IF expirations[k] <= d THEN 0 ELSE expirations[k] - d]
    /\ ledger' = [j \in Ledgers |-> IF ledger[j].left <= d THEN NoWindow
                                    ELSE [ledger[j] EXCEPT !.left = @ - d]]
    /\ last' = NoExchange
    /\ StoreUnchanged
    /\ UNCHANGED threads

-----------------------------------------------------------------------------
(* The service answering one request at a time *)

Init ==
    /\ _DB_CARDS = <<>>
    /\ _next_card_id = 1
    /\ heap = [r \in Refs |-> NoCard]
    /\ next_ref = 1
    /\ storage = [k \in LimitKeys |-> 0]
    /\ expirations = [k \in LimitKeys |-> 0]
    /\ last = NoExchange
    /\ returned = <<>>
    /\ threads = [w \in Workers |-> IdleThread]
    /\ ledger = [j \in Ledgers |-> NoWindow]

\* the callers and request bodies of the runs
Users == {"user-1", "user-2"}
Callers == Users \cup {NoUser}
ClientAddr == "10.0.0.1"

ShortTitle == <<"a", "b">>
PlainTitle == <<"a", "b", "c">>
MarkupTitle == <<"<", "b", ">">>
Titles == {ShortTitle, PlainTitle, MarkupTitle}

InvalidColumn == "invalid-column"

CreateBodies ==
    {Body(TRUE, t, TRUE, c) : t \in Titles, c \in {"todo", InvalidColumn}}
    \cup {Body(TRUE, PlainTitle, TRUE, "done"), Body(TRUE, PlainTitle, FALSE, ""),
          Body(FALSE, <<>>, TRUE, "todo")}

UpdateBodies ==
    {Body(TRUE, t, FALSE, "") : t \in Titles}
    \cup {Body(TRUE, PlainTitle, TRUE, c) : c \in {"done", InvalidColumn}}
    \cup {Body(FALSE, <<>>, TRUE, "done")}

\* no window of the limiter is open: the callers of these runs leave a full window
\* between two requests to the rate-limited routes
Quiet == \A k \in LimitKeys : storage[k] = 0

Next ==
    \/ \E cid \in Uuids : Quiet /\ health(ClientAddr, cid)
    \/ \E user \in Callers, body \in CreateBodies, cid \in Uuids :
          Quiet /\ _next_card_id <= MaxCards /\ create_card(ClientAddr, user, body, cid)
    \/ \E user \in Callers, cid \in Uuids : get_cards_list(ClientAddr, user, cid)
    \/ \E user \in Callers, card_id \in Keys, cid \in Uuids :
          get_card_by_id(ClientAddr, user, card_id, cid)
    \/ \E user \in Callers, card_id \in Keys, cid \in Uuids :
          Quiet /\ delete_card(ClientAddr, user, card_id, cid)
    \/ \E user \in Callers, card_id \in Keys, body \in UpdateBodies, cid \in Uuids :
          Quiet /\ update_card(ClientAddr, user, card_id, body, cid)
    \/ Tick(TickStep)

Spec == Init /\ [][Next]_vars

-----------------------------------------------------------------------------
(* Properties of the service answering one request at a time *)

CardRoutes == {"get_card_by_id", "update_card", "delete_card"}

\* the request of an exchange gets to the handler body: its body passes validation
\* and the rule of its route admits it
ReachesHandler(e) ==
    /\ Authenticated(e.user)
    /\ e.route = "update_card" => CardUpdateValid(e.body)
    /\ e.route = "create_card" => CardCreateValid(e.body)
    /\ e.route \in LimitedRoutes => Admitted(LimitKey(e.route, e.addr, e.card_id))

\* C1: a get, update or delete that reaches its handler answers 404 when no card has
\* the id and 403 when the card exists and belongs to another caller; no request for
\* an id without a card is ever answered 403.
C1_NotFoundBeforeForbidden ==
    [][LET e == last'
           card == DictGet(_DB_CARDS, e.card_id)
       IN  e.route \in CardRoutes =>
             /\ card = NoRef => e.response.status # 403
             /\ ReachesHandler(e) =>
                  /\ card = NoRef => e.response.status = 404
                  /\ (card # NoRef /\ heap[card].owner_id # e.user) => e.response.status = 403
      ]_vars

\* a PATCH of another caller's card was answered 403
C1_Witness ==
    /\ last.route = "update_card"
    /\ last.response.status = 403
    /\ DictGet(_DB_CARDS, last.card_id) # NoRef
    /\ heap[DictGet(_DB_CARDS, last.card_id)].owner_id # last.user

\* C2: the k-th successful create returns id k, whatever was deleted before, and the
\* card is stored under that id.
C2_SequentialIds ==
    /\ \A i \in 1..Len(returned) : returned[i] = i
    /\ (last.route = "create_card" /\ last.response.status = 201) =>
          /\ last.response.card.id = Len(returned)
          /\ DictGet(_DB_CARDS, Len(returned)) # NoRef
          /\ heap[DictGet(_DB_CARDS, Len(returned))] = last.response.card

\* the second create, after the first card was deleted, returned id 2
C2_Witness ==
    /\ last.route = "create_card"
    /\ last.response.status = 201
    /\ last.response.card.id = 2
    /\ DictGet(_DB_CARDS, 1) = NoRef

\* the cards of the store a caller owns
CardsOf(user) ==
    {heap[_DB_CARDS[i][2]] : i \in {j \in 1..Len(_DB_CARDS) : heap[_DB_CARDS[j][2]].owner_id = user}}

\* C5: a list request of an authenticated caller is answered 200 with exactly the
\* cards of the store whose owner is the caller, each once; no list request is
\* answered 403 or 404.
C5_ListOwned ==
    last.route = "get_cards_list" =>
      /\ last.response.status \notin {403, 404}
      /\ Authenticated(last.user) =>
           /\ last.response.status = 200
           /\ {last.response.cards[i] : i \in 1..Len(last.response.cards)} = CardsOf(last.user)
           /\ Len(last.response.cards) = Cardinality(CardsOf(last.user))

\* a caller listed its cards while the store held a card of another caller
C5_Witness ==
    /\ last.route = "get_cards_list"
    /\ Len(last.response.cards) >= 1
    /\ \E other \in Users : other # last.user /\ CardsOf(other) # {}

\* C9: a PATCH by the owner that reaches the handler and whose body carries only a
\* valid title is answered 200 with the card; the title becomes the escaped title
\* and the column, the id and the owner stay what they were.
C9_TitleOnlyPatch ==
    [][LET e == last'
           card == DictGet(_DB_CARDS, e.card_id)
       IN  ( /\ e.route = "update_card"
             /\ e.body.has_title /\ ~e.body.has_column
             /\ 3 <= Len(e.body.title) /\ Len(e.body.title) <= 255
             /\ ReachesHandler(e)
             /\ card # NoRef /\ heap[card].owner_id = e.user ) =>
             /\ e.response.status = 200
             /\ DictGet(_DB_CARDS', e.card_id) = card
             /\ heap'[card] = [heap[card] EXCEPT !.title = escape(e.body.title)]
             /\ e.response.card = heap'[card]
      ]_vars

\* a title-only PATCH of a card in column done was answered 200, the column still done
C9_Witness ==
    /\ last.route = "update_card"
    /\ last.response.status = 200
    /\ ~last.body.has_column
    /\ last.body.title = MarkupTitle
    /\ last.response.card.title = escape(MarkupTitle)
    /\ last.response.card.column = "done"

\* C10: a PATCH by the owner that reaches the rate limiter admitted and whose body
\* carries only a valid column is answered 200 with the card; the column becomes the
\* one supplied and the title stays what it was.
C10_ColumnOnlyPatch ==
    [][LET e == last'
           card == DictGet(_DB_CARDS, e.card_id)
       IN  ( /\ e.route = "update_card"
             /\ Authenticated(e.user)
             /\ ~e.body.has_title /\ e.body.has_column /\ e.body.column \in CardColumn
             /\ Admitted(LimitKey(e.route, e.addr, e.card_id))
             /\ card # NoRef /\ heap[card].owner_id = e.user ) =>
             /\ e.response.status = 200
             /\ heap'[card] = [heap[card] EXCEPT !.column = e.body.column]
             /\ e.response.card = heap'[card]
      ]_vars

-----------------------------------------------------------------------------
(* The service answering one request at a time, the titles of the requests varied *)

EmptyTitle == <<>>
EntityTitle == <<"&", "l", "t", ";">>
QuoteTitle == <<"\"", "'", "&">>
XssTitle ==
    <<"<", "s", "c", "r", "i", "p", "t", ">", "a", "l", "e", "r", "t", "(", "'", "X", "S", "S",
      "'", ")", "<", "/", "s", "c", "r", "i", "p", "t", ">">>
MaxTitle == Repeat("A", MaxTitleLen)
MaxMarkupTitle == Repeat("A", MaxTitleLen - 1) \o <<"<">>
MaxQuoteTitle == Repeat("'", MaxTitleLen)
LongTitle == Repeat("A", MaxTitleLen + 1)

TextTitles ==
    {EmptyTitle, ShortTitle, PlainTitle, MarkupTitle, EntityTitle, QuoteTitle, XssTitle,
     MaxTitle, MaxMarkupTitle, MaxQuoteTitle, LongTitle}

TextCreateBodies == {Body(TRUE, t, TRUE, c) : t \in TextTitles, c \in {"todo", InvalidColumn}}

TextUpdateBodies == {Body(TRUE, t, FALSE, "") : t \in TextTitles}

NextTitles ==
    \/ \E user \in {"user-1", NoUser}, body \in TextCreateBodies, cid \in Uuids :
          Quiet /\ _next_card_id <= MaxTextCards /\ create_card(ClientAddr, user, body, cid)
    \/ \E card_id \in 1..MaxTextCards, body \in TextUpdateBodies, cid \in Uuids :
          Quiet /\ update_card(ClientAddr, "user-1", card_id, body, cid)
    \/ \E card_id \in 1..MaxTextCards, cid \in Uuids :
          get_card_by_id(ClientAddr, "user-1", card_id, cid)
    \/ Tick(TickStep)

SpecTitles == Init /\ [][NextTitles]_vars

\* the titles of the cards in the store
StoredTitles == {heap[_DB_CARDS[i][2]].title : i \in 1..Len(_DB_CARDS)}

\* the last exchange created or updated a card
Written == last.route \in {"create_card", "update_card"} /\ last.response.status \in {200, 201}

\* the card the last exchange wrote, as the store holds it
WrittenCard == heap[DictGet(_DB_CARDS, last.response.card.id)]

\* C6: an authenticated create with both fields that the rate limiter does not turn
\* away is answered 201 when its column is one of the three values and its raw title
\* has 3 to 255 characters, and 422 when the title is shorter or longer or the column
\* is another value.
C6_CreateTitleLength ==
    ( /\ last.route = "create_card"
      /\ Authenticated(last.user)
      /\ last.body.has_title /\ last.body.has_column
      /\ last.response.status # 429 ) =>
      IF /\ last.body.column \in {"todo", "in-progress", "done"}
         /\ 3 <= Len(last.body.title) /\ Len(last.body.title) <= 255
      THEN last.response.status = 201
      ELSE last.response.status = 422 /\ last.response.problem.title = "Validation Error"

\* a create with a title of 255 characters was answered 201
C6_Witness ==
    /\ last.route = "create_card"
    /\ last.response.status = 201
    /\ Len(last.body.title) = 255

\* C7 as claimed: every stored title has 3 to 255 characters.
C7_StoredTitleLength ==
    \A t \in StoredTitles : 3 <= Len(t) /\ Len(t) <= 255

\* C7 as amended: a card is written only from a raw title of 3 to 255 characters, and
\* the stored title, which is the escaped one, has at least as many characters as the
\* raw title and at most six times 255.
C7_StoredTitleLengthEscaped ==
    /\ \A t \in StoredTitles : 3 <= Len(t) /\ Len(t) <= 6 * 255
    /\ Written =>
          /\ 3 <= Len(last.body.title) /\ Len(last.body.title) <= 255
          /\ Len(last.body.title) <= Len(WrittenCard.title)

\* a stored title of more than 255 characters
C7_Witness ==
    /\ Written
    /\ Len(last.body.title) = 255
    /\ Len(WrittenCard.title) = 6 * 255

\* the entity of a character
Entity(c) ==
    CASE c = "&" -> <<"&", "a", "m", "p", ";">>
      [] c = "<" -> <<"&", "l", "t", ";">>
      [] c = ">" -> <<"&", "g", "t", ";">>
      [] c = "\"" -> <<"&", "q", "u", "o", "t", ";">>
      [] c = "'" -> <<"&", "#", "x", "2", "7", ";">>
      [] OTHER -> <<c>>

\* a title with each character replaced by its entity, once
RECURSIVE EntityEscape(_)
EntityEscape(s) ==
    IF Len(s) = 0 THEN <<>>
    ELSE IF Len(s) = 1 THEN Entity(s[1])
    ELSE LET m == Len(s) \div 2
         IN  EntityEscape(SubSeq(s, 1, m)) \o EntityEscape(SubSeq(s, m + 1, Len(s)))

XssEscaped ==
    <<"&", "l", "t", ";", "s", "c", "r", "i", "p", "t", "&", "g", "t", ";",
      "a", "l", "e", "r", "t", "(", "&", "#", "x", "2", "7", ";", "X", "S", "S",
      "&", "#", "x", "2", "7", ";", ")",
      "&", "l", "t", ";", "/", "s", "c", "r", "i", "p", "t", "&", "g", "t", ";">>

\* C8: the title a create or update returns and stores is the submitted title with
\* each of < > & ' " replaced by its entity exactly once; no stored title holds a raw
\* < > ' or "; the script title is stored in its escaped form.
C8_EscapedOnce ==
    /\ Written =>
          /\ last.response.card.title = EntityEscape(last.body.title)
          /\ WrittenCard.title = EntityEscape(last.body.title)
          /\ last.body.title = XssTitle => WrittenCard.title = XssEscaped
    /\ \A t \in StoredTitles : \A i \in 1..Len(t) : t[i] \notin {"<", ">", "'", "\""}

\* the script title was submitted and is stored escaped
C8_Witness ==
    /\ Written
    /\ last.body.title = XssTitle
    /\ last.response.card.title = XssEscaped
    /\ XssEscaped \in StoredTitles

-----------------------------------------------------------------------------
(* The handlers of several requests running in worker threads: a def endpoint runs *)
(* in a thread of the pool, so the statements of two handlers interleave.  Each    *)
(* worker takes one request.                                                       *)

ThreadUnchanged == UNCHANGED <<last>>

At(w, pc) == threads[w].pc = pc

\* the worker goes on to its next statement
Goto(w, pc) == [threads EXCEPT ![w].pc = pc]

\* the handler of the worker ends with a response; its local variables are released
Done(w, response) ==
    [threads EXCEPT ![w].pc = "done", ![w].card = NoRef, ![w].response = response]

\* a request arrives at an idle worker: the body is parsed, and the dependencies, the
\* body validation and the rule of the route are resolved before the endpoint function
\* is entered
Begin(w, route, user, card_id, body, cid) ==
    LET k == LimitKey(route, ClientAddr, card_id)
        t == [threads[w] EXCEPT !.route = route, !.user = user, !.card_id = card_id,
                                !.body = body]
        valid == IF route = "create_card" THEN CardCreateValid(body)
                 ELSE IF route = "update_card" THEN CardUpdateValid(body)
                 ELSE TRUE
        first == IF route = "create_card" THEN "create_164"
                 ELSE IF route = "update_card" THEN "update_223"
                 ELSE "delete_199"
    IN  /\ At(w, "idle")
        /\ UNCHANGED <<_DB_CARDS, _next_card_id, heap, next_ref, returned>>
        /\ ThreadUnchanged
        /\ IF ~JsonParsed(body)
           THEN /\ threads' = [threads EXCEPT ![w] = [t EXCEPT !.pc = "done",
                                          !.response = ValidationError(cid)]]
                /\ LimiterUnchanged
           ELSE IF ~Authenticated(user)
           THEN /\ threads' = [threads EXCEPT ![w] = [t EXCEPT !.pc = "done",
                                          !.response = AuthenticationError(cid)]]
                /\ LimiterUnchanged
           ELSE IF ~valid
           THEN /\ threads' = [threads EXCEPT ![w] = [t EXCEPT !.pc = "done",
                                          !.response = ValidationError(cid)]]
                /\ LimiterUnchanged
           ELSE /\ Hit(route, k)
                /\ threads' = [threads EXCEPT ![w] =
                      IF Admitted(k) THEN [t EXCEPT !.pc = first]
                      ELSE [t EXCEPT !.pc = "done",
                                     !.response = RateLimitError(RateRule(route), cid)]]

\* new_card = Card(id=_next_card_id, owner_id=owner_id, **card_in.model_dump())
create_164(w) ==
    LET t == threads[w]
    IN  /\ At(w, "create_164")
        /\ heap' = [heap EXCEPT ![next_ref] = NewCard(_next_card_id, t.user, Sanitized(t.body))]
        /\ next_ref' = next_ref + 1
        /\ threads' = [threads EXCEPT ![w].pc = "create_165", ![w].card = next_ref]
        /\ UNCHANGED <<_DB_CARDS, _next_card_id, returned>>
        /\ LimiterUnchanged /\ ThreadUnchanged

\* _DB_CARDS[_next_card_id] = new_card
create_165(w) ==
    /\ At(w, "create_165")
    /\ _DB_CARDS' = DictSet(_DB_CARDS, _next_card_id, threads[w].card)
    /\ threads' = Goto(w, "create_166_load")
    /\ heap' = Collect(heap, _DB_CARDS', threads')
    /\ UNCHANGED <<_next_card_id, next_ref, returned>>
    /\ LimiterUnchanged /\ ThreadUnchanged

\* _next_card_id += 1: the global is read ...
create_166_load(w) ==
    /\ At(w, "create_166_load")
    /\ threads' = [threads EXCEPT ![w].pc = "create_166_store", ![w].tmp = _next_card_id]
    /\ UNCHANGED <<_DB_CARDS, _next_card_id, heap, next_ref, returned>>
    /\ LimiterUnchanged /\ ThreadUnchanged

\* ... and written back, one more
create_166_store(w) ==
    /\ At(w, "create_166_store")
    /\ _next_card_id' = IdAfter(threads[w].tmp)
    /\ threads' = Goto(w, "create_167")
    /\ UNCHANGED <<_DB_CARDS, heap, next_ref, returned>>
    /\ LimiterUnchanged /\ ThreadUnchanged

\* return new_card: the response is the card as it is when it is serialized
create_167(w) ==
    LET card == heap[threads[w].card]
    IN  /\ At(w, "create_167")
        /\ threads' = Done(w, Response(201, card, <<>>, NoProblem))
        /\ returned' = Append(returned, card.id)
        /\ heap' = Collect(heap, _DB_CARDS, threads')
        /\ UNCHANGED <<_DB_CARDS, _next_card_id, next_ref>>
        /\ LimiterUnchanged /\ ThreadUnchanged

\* card = _DB_CARDS.get(card_id) and the two checks, in delete_card
delete_199(w, cid) ==
    LET t == threads[w]
        card == DictGet(_DB_CARDS, t.card_id)
    IN  /\ At(w, "delete_199")
        /\ threads' =
             IF Access(card, t.user) = "not_found" THEN Done(w, NotFoundError(t.card_id, cid))
             ELSE IF Access(card, t.user) = "forbidden" THEN Done(w, ForbiddenError("delete", cid))
             ELSE [threads EXCEPT ![w].pc = "delete_212", ![w].card = card]
        /\ UNCHANGED <<_DB_CARDS, _next_card_id, heap, next_ref, returned>>
        /\ LimiterUnchanged /\ ThreadUnchanged

\* del _DB_CARDS[card_id]: a KeyError when the key is gone, answered 500
delete_212(w, cid) ==
    LET t == threads[w]
    IN  /\ At(w, "delete_212")
        /\ IF t.card_id \in DictKeys(_DB_CARDS)
           THEN /\ _DB_CARDS' = DictDel(_DB_CARDS, t.card_id)
                /\ threads' = Done(w, Response(204, NoCard, <<>>, NoProblem))
           ELSE /\ UNCHANGED _DB_CARDS
                /\ threads' = Done(w, InternalError(cid))
        /\ heap' = Collect(heap, _DB_CARDS', threads')
        /\ UNCHANGED <<_next_card_id, next_ref, returned>>
        /\ LimiterUnchanged /\ ThreadUnchanged

\* the statement after the setattr of a field: the next field of update_data, or line 240
AfterField(card_in, field) ==
    IF field = "" /\ "title" \in UpdateFields(card_in) THEN "update_238_title"
    ELSE IF field \in {"", "title"} /\ "column" \in UpdateFields(card_in) THEN "update_238_column"
    ELSE "update_240"

\* card = _DB_CARDS.get(card_id) and the two checks, in update_card
update_223(w, cid) ==
    LET t == threads[w]
        card == DictGet(_DB_CARDS, t.card_id)
    IN  /\ At(w, "update_223")
        /\ threads' =
             IF Access(card, t.user) = "not_found" THEN Done(w, NotFoundError(t.card_id, cid))
             ELSE IF Access(card, t.user) = "forbidden" THEN Done(w, ForbiddenError("update", cid))
             ELSE [threads EXCEPT ![w].pc = AfterField(Sanitized(t.body), ""), ![w].card = card]
        /\ UNCHANGED <<_DB_CARDS, _next_card_id, heap, next_ref, returned>>
        /\ LimiterUnchanged /\ ThreadUnchanged

\* setattr(card, "title", value): the object is changed in place
update_238_title(w) ==
    LET t == threads[w]
    IN  /\ At(w, "update_238_title")
        /\ heap' = [heap EXCEPT ![t.card].title = Sanitized(t.body).title]
        /\ threads' = Goto(w, AfterField(Sanitized(t.body), "title"))
        /\ UNCHANGED <<_DB_CARDS, _next_card_id, next_ref, returned>>
        /\ LimiterUnchanged /\ ThreadUnchanged

\* setattr(card, "column", value)
update_238_column(w) ==
    LET t == threads[w]
    IN  /\ At(w, "update_238_column")
        /\ heap' = [heap EXCEPT ![t.card].column = Sanitized(t.body).column]
        /\ threads' = Goto(w, AfterField(Sanitized(t.body), "column"))
        /\ UNCHANGED <<_DB_CARDS, _next_card_id, next_ref, returned>>
        /\ LimiterUnchanged /\ ThreadUnchanged

\* _DB_CARDS[card_id] = card
update_240(w) ==
    /\ At(w, "update_240")
    /\ _DB_CARDS' = DictSet(_DB_CARDS, threads[w].card_id, threads[w].card)
    /\ threads' = Goto(w, "update_241")
    /\ heap' = Collect(heap, _DB_CARDS', threads')
    /\ UNCHANGED <<_next_card_id, next_ref, returned>>
    /\ LimiterUnchanged /\ ThreadUnchanged

\* return card
update_241(w) ==
    /\ At(w, "update_241")
    /\ threads' = Done(w, Response(200, heap[threads[w].card], <<>>, NoProblem))
    /\ heap' = Collect(heap, _DB_CARDS, threads')
    /\ UNCHANGED <<_DB_CARDS, _next_card_id, next_ref, returned>>
    /\ LimiterUnchanged /\ ThreadUnchanged

ThreadCreateBodies == {Body(TRUE, PlainTitle, TRUE, "todo")}

ThreadUpdateBodies == {Body(TRUE, MarkupTitle, FALSE, ""), Body(TRUE, MarkupTitle, TRUE, "done")}

NextThreads ==
    \E w \in Workers :
      \/ \E user \in Users, body \in ThreadCreateBodies, cid \in Uuids :
            _next_card_id <= MaxCards /\ Begin(w, "create_card", user, 0, body, cid)
      \/ \E user \in Users, body \in ThreadUpdateBodies, cid \in Uuids :
            Begin(w, "update_card", user, 1, body, cid)
      \/ \E user \in Users, cid \in Uuids : Begin(w, "delete_card", user, 1, NoBody, cid)
      \/ create_164(w)
      \/ create_165(w)
      \/ create_166_load(w)
      \/ create_166_store(w)
      \/ create_167(w)
      \/ \E cid \in Uuids : delete_199(w, cid)
      \/ \E cid \in Uuids : delete_212(w, cid)
      \/ \E cid \in Uuids : update_223(w, cid)
      \/ update_238_title(w)
      \/ update_238_column(w)
      \/ update_240(w)
      \/ update_241(w)

SpecThreads == Init /\ [][NextThreads]_vars

\* no handler is running
AllFinished == \A w \in Workers : threads[w].pc \in {"idle", "done"}

\* C3: concurrent creates never return the same id twice, and once n creates (and
\* nothing else) have completed the store holds exactly the ids 1..n, each key
\* holding the card with that id.
C3_ConcurrentCreates ==
    /\ \A i, j \in 1..Len(returned) : i # j => returned[i] # returned[j]
    /\ (AllFinished /\ \A w \in Workers : threads[w].route \in {"", "create_card"}) =>
          /\ DictKeys(_DB_CARDS) = 1..Len(returned)
          /\ \A k \in DictKeys(_DB_CARDS) : heap[DictGet(_DB_CARDS, k)].id = k

\* C4: when a PATCH and a DELETE of one card have both finished, the DELETE with 204
\* and the PATCH with 200, the card is not in the store.
C4_UpdateDeleteSerial ==
    \A u, d \in Workers :
      ( /\ AllFinished
        /\ threads[u].route = "update_card" /\ threads[d].route = "delete_card"
        /\ threads[u].card_id = threads[d].card_id
        /\ threads[u].user = threads[d].user
        /\ threads[u].response.status = 200
        /\ threads[d].response.status = 204 ) =>
        DictGet(_DB_CARDS, threads[u].card_id) = NoRef

-----------------------------------------------------------------------------
(* The service answering one request at a time, under a flood of requests: the *)
(* callers do not wait for a window to end before the next request.  The clock *)
(* advances by two steps at a time, which ends every open window.              *)

\* a request no route matches: the router raises HTTPException(404), which the
\* application leaves to the framework's own handler
not_found(addr, user, cid) ==
    /\ last' = Exchange("not_found", addr, user, 0, NoBody,
                        [Response(404, NoCard, <<>>, NoProblem) EXCEPT !.detail = "Not Found"])
    /\ StoreUnchanged /\ LimiterUnchanged
    /\ UNCHANGED threads

FloodCreateBodies ==
    {Body(TRUE, PlainTitle, TRUE, "todo"), Body(TRUE, ShortTitle, TRUE, "todo"), MalformedBody}

FloodUpdateBodies ==
    {Body(TRUE, MarkupTitle, TRUE, "done"), Body(TRUE, ShortTitle, FALSE, ""), MalformedBody}

\* no window of another counter is open: the flood is on one counter at a time
Alone(k) == \A j \in LimitKeys \ {k} : storage[j] = 0

\* the flood creates at most one window's worth of cards
CreatesLeft(user, body, k) ==
    (JsonParsed(body) /\ Authenticated(user) /\ CardCreateValid(body) /\ Admitted(k)) =>
        _next_card_id <= CreateLimit

\* the card the requests of the flood name
FloodKeys == {1}

NextFlood ==
    \/ \E cid \in Uuids : Alone(LimitKey("health", ClientAddr, 0)) /\ health(ClientAddr, cid)
    \/ \E user \in {"user-1", NoUser}, body \in FloodCreateBodies, cid \in Uuids :
          /\ Alone(LimitKey("create_card", ClientAddr, 0))
          /\ CreatesLeft(user, body, LimitKey("create_card", ClientAddr, 0))
          /\ create_card(ClientAddr, user, body, cid)
    \/ \E user \in Callers, cid \in Uuids : get_cards_list(ClientAddr, user, cid)
    \/ \E user \in Callers, card_id \in FloodKeys, cid \in Uuids :
          get_card_by_id(ClientAddr, user, card_id, cid)
    \/ \E user \in Callers, card_id \in FloodKeys, cid \in Uuids :
          /\ Alone(LimitKey("delete_card", ClientAddr, card_id))
          /\ delete_card(ClientAddr, user, card_id, cid)
    \/ \E user \in Callers, card_id \in FloodKeys, body \in FloodUpdateBodies, cid \in Uuids :
          /\ Alone(LimitKey("update_card", ClientAddr, card_id))
          /\ update_card(ClientAddr, user, card_id, body, cid)
    \/ \E cid \in Uuids : not_found(ClientAddr, NoUser, cid)
    \/ Tick(2 * TickStep)

SpecFlood == Init /\ [][NextFlood]_vars

-----------------------------------------------------------------------------
(* The service answering one request at a time, under a flood of PATCH and DELETE *)
(* requests for one card                                                          *)

CardUpdateBodies == {Body(TRUE, MarkupTitle, TRUE, "done"), Body(TRUE, ShortTitle, FALSE, "")}

NextFloodCard ==
    \/ \E cid \in Uuids :
          /\ Quiet /\ _next_card_id \in FloodKeys
          /\ create_card(ClientAddr, "user-1", Body(TRUE, PlainTitle, TRUE, "todo"), cid)
    \/ \E card_id \in FloodKeys, cid \in Uuids : get_card_by_id(ClientAddr, "user-1", card_id, cid)
    \/ \E user \in Users, card_id \in FloodKeys, cid \in Uuids :
          /\ Alone(LimitKey("delete_card", ClientAddr, card_id))
          /\ delete_card(ClientAddr, user, card_id, cid)
    \/ \E user \in Users, card_id \in FloodKeys, body \in CardUpdateBodies, cid \in Uuids :
          /\ Alone(LimitKey("update_card", ClientAddr, card_id))
          /\ update_card(ClientAddr, user, card_id, body, cid)
    \/ Tick(TickStep)

SpecFloodCard == Init /\ [][NextFloodCard]_vars

\* the request of an exchange is handed to the limiter: it is for a limited route, its
\* body is valid and, on a card route, it carries an identity
ReachesLimiter(e) ==
    /\ e.route \in LimitedRoutes
    /\ e.route # "health" => Authenticated(e.user)
    /\ e.route = "create_card" => JsonParsed(e.body) /\ CardCreateValid(e.body)
    /\ e.route = "update_card" => JsonParsed(e.body) /\ CardUpdateValid(e.body)

\* C11: of the requests of one route that one address hands to the limiter, the first N
\* of a window (5 in 30 s for health and create, 10 in 60 s for update and delete) are
\* not answered 429, every further one of the window is answered 429 "Rate Limit
\* Exceeded", and the count starts again once the window has elapsed.
C11_RateLimitWindow ==
    [][LET e == last'
       IN  ReachesLimiter(e) =>
             IF ledger[<<e.route, e.addr>>].hits < RateLimit(e.route)
             THEN e.response.status # 429
             ELSE /\ e.response.status = 429
                  /\ e.response.problem.title = "Rate Limit Exceeded"
      ]_vars

\* the decision the limiter takes on a request of a caller
AdmittedFor(user, route, addr, card_id) == Admitted(LimitKey(route, addr, card_id))

\* C12: a card request of one identity leaves unchanged whether a request of another
\* identity from the same address is admitted, on every route and card.
C12_PerUserBudget ==
    [][LET e == last'
       IN  e.user \in Users =>
             \A other \in Users \ {e.user}, route \in LimitedRoutes, card_id \in Keys :
                 \A addr \in Addrs : addr = e.addr =>
                     AdmittedFor(other, route, addr, card_id)' =
                         AdmittedFor(other, route, addr, card_id)
      ]_vars

\* C13: a request to one limited route leaves the counters of the other limited routes
\* as they were, so it changes the decision on none of their requests.
C13_PerRouteCounters ==
    [][LET e == last'
       IN  e.route \in LimitedRoutes =>
             \A other \in LimitedRoutes \ {e.route}, card_id \in Keys :
                 \A addr \in Addrs : addr = e.addr =>
                     LET k == LimitKey(other, addr, card_id)
                     IN  /\ storage'[k] = storage[k]
                         /\ Admitted(k)' = Admitted(k)
      ]_vars

\* the routes that take the identity dependency
IdentityRoutes == {"create_card", "get_cards_list", "get_card_by_id", "update_card", "delete_card"}

\* C14: a request to a card route without identity (header missing or empty) is answered
\* 401 "Authentication Error", whatever its body, its card id, the store and the
\* limiter hold, and the store is left as it was.
C14_MissingIdentity ==
    [][LET e == last'
       IN  (e.route \in IdentityRoutes /\ e.user = NoUser) =>
             /\ e.response.status = 401
             /\ e.response.problem.title = "Authentication Error"
             /\ UNCHANGED <<_DB_CARDS, _next_card_id, heap>>
      ]_vars

-----------------------------------------------------------------------------
(* Further properties of the service answering one request at a time (Spec) *)

\* the card the store holds under a key
Stored(d, h, k) == h[DictGet(d, k)]

\* C15: every card is stored under its id; a card that stays in the store keeps its id
\* and its owner, and changes only through an update of that card; a card that enters
\* the store is the card of a create, owned by the identity of that request.
C15_IdOwnerImmutable ==
    [][/\ \A k \in DictKeys(_DB_CARDS') : Stored(_DB_CARDS', heap', k).id = k
       /\ \A k \in DictKeys(_DB_CARDS) \cap DictKeys(_DB_CARDS') :
             /\ Stored(_DB_CARDS', heap', k).id = Stored(_DB_CARDS, heap, k).id
             /\ Stored(_DB_CARDS', heap', k).owner_id = Stored(_DB_CARDS, heap, k).owner_id
             /\ Stored(_DB_CARDS', heap', k) # Stored(_DB_CARDS, heap, k) =>
                   last'.route = "update_card" /\ last'.card_id = k
       /\ \A k \in DictKeys(_DB_CARDS') \ DictKeys(_DB_CARDS) :
             /\ last'.route = "create_card"
             /\ last'.response.card.id = k
             /\ Stored(_DB_CARDS', heap', k).owner_id = last'.user
      ]_vars

\* the second card, created by user-2, was updated with a title and a column: its id
\* and owner are as at creation
C15_Witness ==
    /\ last.route = "update_card"
    /\ last.response.status = 200
    /\ last.card_id = 2
    /\ last.body.has_column
    /\ Stored(_DB_CARDS, heap, 2) = [id |-> 2, owner_id |-> "user-2",
                                     title |-> PlainTitle, column |-> "done"]

\* C16: the card a create returns is the card stored under the returned id; it stays
\* as it is until an update or delete of that id; a get of a stored card by its owner
\* is answered 200 with the stored card.  So a get by the creator that follows the
\* create, with no update or delete of the id between them, returns the id, the
\* sanitized title, the column and the owner the create returned.
C16_CreateThenGet ==
    [][/\ (last'.route = "create_card" /\ last'.response.status = 201) =>
             /\ Stored(_DB_CARDS', heap', last'.response.card.id) = last'.response.card
             /\ last'.response.card.owner_id = last'.user
       /\ \A k \in DictKeys(_DB_CARDS) :
             ~(last'.route \in {"update_card", "delete_card"} /\ last'.card_id = k) =>
                 /\ k \in DictKeys(_DB_CARDS')
                 /\ Stored(_DB_CARDS', heap', k) = Stored(_DB_CARDS, heap, k)
       /\ ( /\ last'.route = "get_card_by_id"
            /\ last'.card_id \in DictKeys(_DB_CARDS)
            /\ last'.user = Stored(_DB_CARDS, heap, last'.card_id).owner_id ) =>
             /\ last'.response.status = 200
             /\ last'.response.card = Stored(_DB_CARDS, heap, last'.card_id)
       /\ ( /\ last.route = "create_card" /\ last.response.status = 201
            /\ last'.route = "get_card_by_id"
            /\ last'.card_id = last.response.card.id
            /\ last'.user = last.user ) =>
             /\ last'.response.status = 200
             /\ last'.response.card = last.response.card
      ]_vars

\* user-2 fetched its card 2, whose stored title is an escaped one
C16_Witness ==
    /\ last.route = "get_card_by_id"
    /\ last.user = "user-2"
    /\ last.response.status = 200
    /\ last.response.card = [id |-> 2, owner_id |-> "user-2",
                             title |-> escape(MarkupTitle), column |-> "todo"]

\* C17: every response that is not 2xx has one of the statuses 401, 403, 404, 422,
\* 429, 500 and is the envelope: type, title, status, detail and correlation_id, the
\* status field equal to the status of the response, and no document of another shape.
C17_UniformEnvelope ==
    (last.response.status # 0 /\ last.response.status \notin 200..299) =>
        /\ last.response.status \in {401, 403, 404, 422, 429, 500}
        /\ last.response.problem.type = "about:blank"
        /\ last.response.problem.title # ""
        /\ last.response.problem.status = last.response.status
        /\ last.response.problem.detail # <<>>
        /\ last.response.problem.correlation_id \in Uuids
        /\ last.response.detail = ""

\* C18: on POST /cards and PATCH /cards/{id} the limiter decides before the body is
\* validated: an authenticated request whose counter is exhausted is answered 429
\* whatever its body, and a request answered 422 has been counted.
C18_LimiterBeforeValidation ==
    [][LET e == last'
           k == LimitKey(e.route, e.addr, e.card_id)
       IN  (e.route \in {"create_card", "update_card"} /\ Authenticated(e.user)) =>
             /\ ~Admitted(k) => e.response.status = 429
             /\ e.response.status = 422 => storage'[k] = HitCount(k)
      ]_vars

\* C19: a request answered 401, 403, 404, 422 or 429 leaves the cards and the id
\* counter exactly as they were, and so does every GET /cards, GET /cards/{id} and
\* GET /health, whatever the answer.
C19_ErrorsChangeNothing ==
    [][LET e == last'
       IN  ( \/ e.response.status \in {401, 403, 404, 422, 429}
             \/ e.route \in {"get_cards_list", "get_card_by_id", "health"} ) =>
             UNCHANGED <<_DB_CARDS, _next_card_id, heap>>
      ]_vars

\* the sixth create of a window was turned away: five cards, the next id is 6
C19_Witness ==
    /\ last.route = "create_card"
    /\ last.response.status = 429
    /\ Len(_DB_CARDS) + Len(SelectSeq(returned, LAMBDA i : i \notin DictKeys(_DB_CARDS))) = 5
    /\ _next_card_id = 6

\* the ids that were assigned and are not in the store: the deleted ones
Deleted == (1..(_next_card_id - 1)) \ DictKeys(_DB_CARDS)

\* C20: a delete that reaches its handler and is by the card's owner is answered 204;
\* a delete answered 204 removes exactly the card it names and leaves every other card
\* and the id counter as they were.  A deleted id never returns to the store: the
\* counter never decreases and a create stores its card under the counter's value.
\* Every get, update and delete of a deleted id that reaches its handler, by whatever
\* caller, is answered 404.
C20_DeleteForGood ==
    [][LET e == last'
       IN  /\ ( /\ e.route = "delete_card" /\ ReachesHandler(e)
                /\ e.card_id \in DictKeys(_DB_CARDS)
                /\ Stored(_DB_CARDS, heap, e.card_id).owner_id = e.user ) =>
                 e.response.status = 204
           /\ (e.route = "delete_card" /\ e.response.status = 204) =>
                 /\ e.card_id \in DictKeys(_DB_CARDS)
                 /\ Stored(_DB_CARDS, heap, e.card_id).owner_id = e.user
                 /\ DictKeys(_DB_CARDS') = DictKeys(_DB_CARDS) \ {e.card_id}
                 /\ \A k \in DictKeys(_DB_CARDS') :
                       Stored(_DB_CARDS', heap', k) = Stored(_DB_CARDS, heap, k)
                 /\ _next_card_id' = _next_card_id
           /\ _next_card_id' >= _next_card_id
           /\ (e.route = "create_card" /\ e.response.status = 201) =>
                 /\ e.response.card.id = _next_card_id
                 /\ DictKeys(_DB_CARDS') = DictKeys(_DB_CARDS) \cup {_next_card_id}
           /\ \A k \in Deleted :
                 /\ k \notin DictKeys(_DB_CARDS')
                 /\ (e.route \in CardRoutes /\ e.card_id = k /\ ReachesHandler(e)) =>
                       e.response.status = 404
      ]_vars

\* card 1 was deleted, card 2 was created after that, and a PATCH of card 1 by the
\* other caller was answered 404
C20_Witness ==
    /\ last.route = "update_card"
    /\ last.card_id = 1
    /\ last.response.status = 404
    /\ Deleted = {1}
    /\ DictKeys(_DB_CARDS) = {2}
    /\ last.user # Stored(_DB_CARDS, heap, 2).owner_id

=============================================================================
